---- MODULE Spec2Model ----
(***************************************************************************)
(* Model of the normalisation engine of src/normalization.py:              *)
(* parse_relation, attribute_closure, find_candidate_keys,                 *)
(* determine_normal_form and decompose_to_bcnf.                            *)
(*                                                                         *)
(* Attributes are opaque identifiers compared by equality; they are        *)
(* modelled as naturals.  A functional dependency is the pair <<lhs, rhs>> *)
(* of attribute sets, and an FD list is a sequence of such pairs, as in    *)
(* parse_fds' result.                                                      *)
(***************************************************************************)
EXTENDS Naturals, Integers, FiniteSets, Sequences, TLC

VARIABLES
    pc,              \* position of the call under analysis
    relation_attrs,  \* the relation's attribute set (all_attrs / relation_attrs)
    fds,             \* the FD list
    attributes,      \* the argument of attribute_closure
    closure,         \* result of attribute_closure
    candidate_keys,  \* result of find_candidate_keys
    verdict,         \* result of determine_normal_form
    queue,           \* decompose_to_bcnf: work queue
    steps,           \* decompose_to_bcnf: recorded decomposition steps
    final_schemas,   \* decompose_to_bcnf: finalized schemas
    iterations,      \* decompose_to_bcnf: loop counter
    ret,             \* decompose_to_bcnf: what the caller receives
    input_str,       \* parse_relation: the input text
    parsed           \* parse_relation: its outcome

vars == <<pc, relation_attrs, fds, attributes, closure, candidate_keys, verdict,
          queue, steps, final_schemas, iterations, ret, input_str, parsed>>

----------------------------------------------------------------------------
(* Bounds of the enumerated inputs *)

NumAttrs == 3
MaxFds == 2
MaxLhs == 2

Attrs == 1..NumAttrs

\* determinants: the non-empty attribute sets of at most MaxLhs attributes
Determinants == {S \in SUBSET Attrs : S # {} /\ Cardinality(S) <= MaxLhs}

\* the enumerated FDs have a single dependent attribute (which may belong to
\* the determinant); dependents of several attributes come with Marketplace
FDPool == {<<L, {a}>> : L \in Determinants, a \in Attrs}

FDLists == UNION {[1..k -> FDPool] : k \in 0..MaxFds}

\* relation universes: by symmetry of the attribute names, the prefixes of Attrs
Universes == {1..n : n \in 1..NumAttrs}

\* the selections of the closure check: the prefixes of Attrs, the empty
\* selection included
ClosureArgs == {1..n : n \in 0..NumAttrs}

----------------------------------------------------------------------------
(* attribute_closure *)

\* one execution of the for loop of attribute_closure over fds[i..], c being
\* the closure set so far
RECURSIVE ScanFds(_, _, _)
ScanFds(c, F, i) ==
    IF i > Len(F) THEN c
    ELSE LET lhs == F[i][1]
             rhs == F[i][2]
         IN  IF lhs \subseteq c /\ ~(rhs \subseteq c)
             THEN ScanFds(c \cup rhs, F, i + 1)
             ELSE ScanFds(c, F, i + 1)

\* a closure that scans the FD list once instead of up to the fixed point
SinglePassClosure(X, F) == ScanFds(X, F, 1)

\* the while loop: repeat the scan until a full scan changes nothing
RECURSIVE attribute_closure(_, _)
attribute_closure(X, F) ==
    LET c == ScanFds(X, F, 1)
    IN  IF c = X THEN X ELSE attribute_closure(c, F)

----------------------------------------------------------------------------
(* Closure queries *)

InitClosure ==
    /\ pc = "closure_call"
    /\ relation_attrs = {}
    /\ fds \in FDLists
    /\ attributes \in ClosureArgs
    /\ closure = {}
    /\ candidate_keys = <<>>
    /\ verdict = [nf |-> "none", violations |-> <<>>]
    /\ queue = <<>>
    /\ steps = <<>>
    /\ final_schemas = <<>>
    /\ iterations = 0
    /\ ret = [kind |-> "none"]
    /\ input_str = <<>>
    /\ parsed = [kind |-> "none"]

\* the button with a non-empty selection: the closure is computed
CallClosure ==
    /\ pc = "closure_call"
    /\ attributes # {}
    /\ closure' = attribute_closure(attributes, fds)
    /\ pc' = "closure_done"
    /\ UNCHANGED <<relation_attrs, fds, attributes, candidate_keys, verdict,
                   queue, steps, final_schemas, iterations, ret, input_str, parsed>>

\* the button with an empty selection: a warning, and no closure is computed
WarnEmptySelection ==
    /\ pc = "closure_call"
    /\ attributes = {}
    /\ pc' = "closure_warned"
    /\ UNCHANGED <<relation_attrs, fds, attributes, closure, candidate_keys, verdict,
                   queue, steps, final_schemas, iterations, ret, input_str, parsed>>

NextClosure == CallClosure \/ WarnEmptySelection

SpecClosure == InitClosure /\ [][NextClosure]_vars

\* S is closed under the FDs of F
ClosedUnder(S, F) == \A i \in 1..Len(F) : (F[i][1] \subseteq S) => (F[i][2] \subseteq S)

\* every attribute an FD list mentions
Mentioned(F) == UNION {F[i][1] \cup F[i][2] : i \in 1..Len(F)}

\* the closed supersets of X among the attributes in play
ClosedSupersets(X, F) ==
    {S \in SUBSET (X \cup Mentioned(F)) : X \subseteq S /\ ClosedUnder(S, F)}

\* the reorderings of an FD list
Reorderings(F) ==
    {[i \in 1..Len(F) |-> F[p[i]]] :
        p \in {q \in [1..Len(F) -> 1..Len(F)] : \A a, b \in 1..Len(F) : q[a] = q[b] => a = b}}

\* C3: attribute_closure(X, F) is the least set that contains X and is closed
\* under every FD of F; it is the same for every order of the FDs in F, and
\* with an empty F it is X.  The closure check never passes the empty set
\* (find_candidate_keys does, for a candidate of no attributes), so that
\* argument is evaluated beside the selection's.
C3_ClosureIsLeastFixedPoint ==
    pc = "closure_done" =>
        /\ closure \in ClosedSupersets(attributes, fds)
        /\ \A S \in ClosedSupersets(attributes, fds) : closure \subseteq S
        /\ \A G \in Reorderings(fds) : attribute_closure(attributes, G) = closure
        /\ (fds = <<>> => closure = attributes)
        /\ attribute_closure({}, fds) \in ClosedSupersets({}, fds)
        /\ \A S \in ClosedSupersets({}, fds) : attribute_closure({}, fds) \subseteq S

\* a closure that needed a second scan: the single scan misses an attribute
C3_Witness ==
    /\ pc = "closure_done"
    /\ Len(fds) = 2
    /\ closure # ScanFds(attributes, fds, 1)
    /\ closure # attributes

----------------------------------------------------------------------------
(* The Marketplace scenario of load_example *)

MarketplaceNames ==
    <<"MilestoneID", "GigID", "ClientID", "CompanyName", "FreelancerID",
      "FreelancerName", "Title", "GigBudget", "Amount">>

\* the attribute standing for a name of the Marketplace relation
Attr(name) == CHOOSE i \in 1..Len(MarketplaceNames) : MarketplaceNames[i] = name

MarketplaceAttrs == {Attr(MarketplaceNames[i]) : i \in 1..Len(MarketplaceNames)}

MarketplaceFds ==
    << <<{Attr("MilestoneID")}, {Attr("GigID"), Attr("Amount")}>>,
       <<{Attr("GigID")},
         {Attr("ClientID"), Attr("FreelancerID"), Attr("Title"), Attr("GigBudget")}>>,
       <<{Attr("ClientID")}, {Attr("CompanyName")}>>,
       <<{Attr("FreelancerID")}, {Attr("FreelancerName")}>> >>

----------------------------------------------------------------------------
(* The GigMix scenario of test_logic.py *)

GigMixNames ==
    <<"GigID", "ClientID", "FreelancerID", "Title", "Budget", "MilestoneID", "Amount">>

\* the attribute standing for a name of the GigMix relation
GigMixAttr(name) == CHOOSE i \in 1..Len(GigMixNames) : GigMixNames[i] = name

GigMixAttrs == {GigMixAttr(GigMixNames[i]) : i \in 1..Len(GigMixNames)}

GigMixFds ==
    << <<{GigMixAttr("GigID")},
         {GigMixAttr("ClientID"), GigMixAttr("FreelancerID"), GigMixAttr("Title"),
          GigMixAttr("Budget")}>>,
       <<{GigMixAttr("MilestoneID")}, {GigMixAttr("GigID"), GigMixAttr("Amount")}>> >>

----------------------------------------------------------------------------
(* The relation the application starts with: R(A, B, C, D, E), A -> B, C and
   C -> D *)

DefaultNames == <<"A", "B", "C", "D", "E">>

\* the attribute standing for a name of the default relation
DefaultAttr(name) == CHOOSE i \in 1..Len(DefaultNames) : DefaultNames[i] = name

DefaultAttrs == {DefaultAttr(DefaultNames[i]) : i \in 1..Len(DefaultNames)}

DefaultFds ==
    << <<{DefaultAttr("A")}, {DefaultAttr("B"), DefaultAttr("C")}>>,
       <<{DefaultAttr("C")}, {DefaultAttr("D")}>> >>

----------------------------------------------------------------------------
(* find_candidate_keys *)

\* list(s): the lists a set can be turned into.  The iteration order of a
\* Python set is not specified (for strings it changes with the hash seed of
\* the run), so every arrangement of the elements is a possible result.
RECURSIVE ListOrders(_)
ListOrders(S) ==
    IF S = {} THEN { <<>> }
    ELSE UNION {{<<x>> \o rest : rest \in ListOrders(S \ {x})} : x \in S}

\* itertools.combinations(s, r), in its lexicographic order, each as a set
RECURSIVE Combinations(_, _)
Combinations(s, r) ==
    IF r = 0 THEN << {} >>
    ELSE IF Len(s) < r THEN <<>>
    ELSE LET with == Combinations(Tail(s), r - 1)
         IN  [i \in 1..Len(with) |-> {Head(s)} \cup with[i]]
             \o Combinations(Tail(s), r)

\* a search that never prunes the supersets of an accepted key
NeverPruned(candidate, keys) == FALSE

is_superkey_of_existing(candidate, keys) ==
    \E i \in 1..Len(keys) : keys[i] \subseteq candidate

\* the inner for loop over combs[i..], the combinations of one size, keys
\* being candidate_keys so far
RECURSIVE SearchCombinations(_, _, _, _, _, _)
SearchCombinations(combs, i, keys, essential_attrs, all_attrs, F) ==
    IF i > Len(combs) THEN keys
    ELSE LET candidate == essential_attrs \cup combs[i]
         IN  IF is_superkey_of_existing(candidate, keys)
             THEN SearchCombinations(combs, i + 1, keys, essential_attrs, all_attrs, F)
             ELSE IF attribute_closure(candidate, F) = all_attrs
             THEN SearchCombinations(combs, i + 1, Append(keys, candidate),
                                     essential_attrs, all_attrs, F)
             ELSE SearchCombinations(combs, i + 1, keys, essential_attrs, all_attrs, F)

\* the outer for loop over the sizes r..Len(remaining_attrs)
RECURSIVE SearchSizes(_, _, _, _, _, _)
SearchSizes(r, keys, essential_attrs, remaining_attrs, all_attrs, F) ==
    IF r > Len(remaining_attrs) THEN keys
    ELSE SearchSizes(r + 1,
                     SearchCombinations(Combinations(remaining_attrs, r), 1, keys,
                                        essential_attrs, all_attrs, F),
                     essential_attrs, remaining_attrs, all_attrs, F)

\* all_attrs - rhs_union: the attributes no FD determines
EssentialAttrs(all_attrs, F) == all_attrs \ UNION {F[i][2] : i \in 1..Len(F)}

\* the possible values of remaining_attrs
RemainingOrders(all_attrs, F) ==
    ListOrders(all_attrs \ EssentialAttrs(all_attrs, F))

\* candidate_keys when the loops are over, remaining_attrs being the list that
\* list(all_attrs - essential_attrs) gave
SubsetSearch(all_attrs, F, remaining_attrs) ==
    SearchSizes(0, <<>>, EssentialAttrs(all_attrs, F), remaining_attrs, all_attrs, F)

\* the result of find_candidate_keys in a run where remaining_attrs is the
\* given list
find_candidate_keys(all_attrs, F, remaining_attrs) ==
    LET found == SubsetSearch(all_attrs, F, remaining_attrs)
    IN  IF found = <<>>
        THEN IF attribute_closure(all_attrs, F) = all_attrs THEN <<all_attrs>> ELSE <<>>
        ELSE found

----------------------------------------------------------------------------
(* Candidate-key queries *)

IdleRest ==
    /\ attributes = {}
    /\ closure = {}
    /\ candidate_keys = <<>>
    /\ verdict = [nf |-> "none", violations |-> <<>>]
    /\ queue = <<>>
    /\ steps = <<>>
    /\ final_schemas = <<>>
    /\ iterations = 0
    /\ ret = [kind |-> "none"]
    /\ input_str = <<>>
    /\ parsed = [kind |-> "none"]

\* the relation and FD list of a decomposition: an enumerated one, or
\* Marketplace
RelationInput ==
    \/ relation_attrs \in Universes /\ fds \in FDLists
    \/ relation_attrs = MarketplaceAttrs /\ fds = MarketplaceFds

\* the relation and FD list of a run that searches the keys: an enumerated
\* one, GigMix (every order of its six determined attributes is taken), or
\* the default relation, which has a partial and a transitive dependency
AnalysedInput ==
    \/ relation_attrs \in Universes /\ fds \in FDLists
    \/ relation_attrs = GigMixAttrs /\ fds = GigMixFds
    \/ relation_attrs = DefaultAttrs /\ fds = DefaultFds

InitKeys ==
    /\ pc = "keys_call"
    /\ AnalysedInput
    /\ IdleRest

CallFindKeys ==
    /\ pc = "keys_call"
    /\ \E remaining_attrs \in RemainingOrders(relation_attrs, fds) :
           candidate_keys' = find_candidate_keys(relation_attrs, fds, remaining_attrs)
    /\ pc' = "keys_done"
    /\ UNCHANGED <<relation_attrs, fds, attributes, closure, verdict,
                   queue, steps, final_schemas, iterations, ret, input_str, parsed>>

NextKeys == CallFindKeys

SpecKeys == InitKeys /\ [][NextKeys]_vars

IsSuperkey(K, U, F) == attribute_closure(K, F) = U

MinimalSuperkeys(U, F) ==
    {K \in SUBSET U :
        /\ IsSuperkey(K, U, F)
        /\ \A J \in SUBSET K : J # K => ~IsSuperkey(J, U, F)}

KeySet(keys) == {keys[i] : i \in 1..Len(keys)}

\* C1: find_candidate_keys(U, F) returns exactly the minimal superkeys of U
\* (the subsets of U whose closure is U and none of whose proper subsets has
\* closure U), each of them once, whatever the order of remaining_attrs.
C1_KeysAreTheMinimalSuperkeys ==
    pc = "keys_done" =>
        /\ KeySet(candidate_keys) = MinimalSuperkeys(relation_attrs, fds)
        /\ Cardinality(KeySet(candidate_keys)) = Len(candidate_keys)

\* several keys were found, a superset of one of them was pruned, and another
\* order of remaining_attrs lists the same keys in another order
C1_Witness ==
    /\ pc = "keys_done"
    /\ Len(candidate_keys) >= 2
    /\ \E i \in 1..Len(candidate_keys) : candidate_keys[i] # relation_attrs
    /\ \E remaining_attrs \in RemainingOrders(relation_attrs, fds) :
           find_candidate_keys(relation_attrs, fds, remaining_attrs) # candidate_keys

\* C2: find_candidate_keys(U, F) is never empty, and when the subset search
\* accepts no candidate the result is the single key U.
C2_KeysNeverEmpty ==
    pc = "keys_done" =>
        /\ Len(candidate_keys) >= 1
        /\ (\A remaining_attrs \in RemainingOrders(relation_attrs, fds) :
                SubsetSearch(relation_attrs, fds, remaining_attrs) = <<>>)
               => candidate_keys = <<relation_attrs>>

----------------------------------------------------------------------------
(* determine_normal_form *)

\* the union of the candidate keys
prime_attributes(keys) == UNION {keys[i] : i \in 1..Len(keys)}

\* a test that takes only a whole key for a part of a key
EqualsSomeKey(lhs, keys) == \E i \in 1..Len(keys) : lhs = keys[i]

is_proper_subset_of_key(lhs, keys) ==
    \E i \in 1..Len(keys) : lhs \subseteq keys[i] /\ lhs # keys[i]

\* the for loop over F[i..]: acc holds violations_2nf, violations_3nf and
\* violations_bcnf so far
RECURSIVE CollectViolations(_, _, _, _, _)
CollectViolations(F, i, attrs, keys, acc) ==
    IF i > Len(F) THEN acc
    ELSE LET lhs == F[i][1]
             rhs == F[i][2]
             clean_rhs == rhs \ lhs
             is_superkey == attrs \subseteq attribute_closure(lhs, F)
             non_prime_rhs == clean_rhs \ prime_attributes(keys)
             partial == is_proper_subset_of_key(lhs, keys)
         IN  IF ~(lhs \subseteq attrs) \/ ~(rhs \subseteq attrs)
             THEN CollectViolations(F, i + 1, attrs, keys, acc)
             ELSE IF clean_rhs = {}
             THEN CollectViolations(F, i + 1, attrs, keys, acc)
             ELSE IF is_superkey
             THEN CollectViolations(F, i + 1, attrs, keys, acc)
             ELSE CollectViolations(F, i + 1, attrs, keys,
                    [v2nf |-> IF partial /\ non_prime_rhs # {}
                              THEN Append(acc.v2nf, <<lhs, non_prime_rhs, "Partial dependency">>)
                              ELSE acc.v2nf,
                     v3nf |-> IF ~partial /\ non_prime_rhs # {}
                              THEN Append(acc.v3nf, <<lhs, non_prime_rhs, "Transitive dependency">>)
                              ELSE acc.v3nf,
                     vbcnf |-> Append(acc.vbcnf, <<lhs, clean_rhs, "LHS is not a superkey">>)])

\* a classifier that tests violations_3nf before violations_2nf
TransitiveTestedFirst(attrs, F, keys) ==
    LET v == CollectViolations(F, 1, attrs, keys,
                               [v2nf |-> <<>>, v3nf |-> <<>>, vbcnf |-> <<>>])
    IN  IF v.v3nf # <<>>
        THEN [nf |-> "2NF", violations |-> v.v3nf]
        ELSE IF v.v2nf # <<>>
        THEN [nf |-> "1NF", violations |-> v.v2nf]
        ELSE IF v.vbcnf # <<>>
        THEN [nf |-> "3NF", violations |-> v.vbcnf]
        ELSE [nf |-> "BCNF", violations |-> <<>>]

determine_normal_form(attrs, F, keys) ==
    LET v == CollectViolations(F, 1, attrs, keys,
                               [v2nf |-> <<>>, v3nf |-> <<>>, vbcnf |-> <<>>])
    IN  IF v.v2nf # <<>>
        THEN [nf |-> "1NF", violations |-> v.v2nf]
        ELSE IF v.v3nf # <<>>
        THEN [nf |-> "2NF", violations |-> v.v3nf]
        ELSE IF v.vbcnf # <<>>
        THEN [nf |-> "3NF", violations |-> v.vbcnf]
        ELSE [nf |-> "BCNF", violations |-> <<>>]

----------------------------------------------------------------------------
(* Normal-form analysis: the keys are found, then the relation is classified *)

InitNF ==
    /\ pc = "nf_call"
    /\ AnalysedInput
    /\ IdleRest

AnalyzeNormalForm ==
    /\ pc = "nf_call"
    /\ \E remaining_attrs \in RemainingOrders(relation_attrs, fds) :
           candidate_keys' = find_candidate_keys(relation_attrs, fds, remaining_attrs)
    /\ verdict' = determine_normal_form(relation_attrs, fds, candidate_keys')
    /\ pc' = "nf_done"
    /\ UNCHANGED <<relation_attrs, fds, attributes, closure,
                   queue, steps, final_schemas, iterations, ret, input_str, parsed>>

NextNF == AnalyzeNormalForm

SpecNF == InitNF /\ [][NextNF]_vars

\* the FDs the verdict considers: inside the relation, not trivial, and with a
\* determinant that is no superkey
Considered(U, F) ==
    {i \in 1..Len(F) :
        /\ F[i][1] \subseteq U
        /\ F[i][2] \subseteq U
        /\ F[i][2] \ F[i][1] # {}
        /\ ~(U \subseteq attribute_closure(F[i][1], F))}

PartOfAKey(L, keys) == \E K \in KeySet(keys) : L \subseteq K /\ L # K

HasNonPrime(L, R, keys) == (R \ L) \ UNION KeySet(keys) # {}

\* C4: the verdict is 1NF iff a considered FD has its determinant a proper
\* subset of a key and a non-prime dependent; otherwise 2NF iff a considered FD
\* has a determinant that is no proper subset of a key and a non-prime
\* dependent; otherwise 3NF iff an FD is considered; otherwise BCNF with no
\* violations.
C4_VerdictPrecedence ==
    pc = "nf_done" =>
        LET I == Considered(relation_attrs, fds)
            two == \E i \in I : /\ PartOfAKey(fds[i][1], candidate_keys)
                                 /\ HasNonPrime(fds[i][1], fds[i][2], candidate_keys)
            three == \E i \in I : /\ ~PartOfAKey(fds[i][1], candidate_keys)
                                   /\ HasNonPrime(fds[i][1], fds[i][2], candidate_keys)
        IN  /\ verdict.nf = (IF two THEN "1NF"
                             ELSE IF three THEN "2NF"
                             ELSE IF I # {} THEN "3NF"
                             ELSE "BCNF")
            /\ (verdict.nf = "BCNF" => verdict.violations = <<>>)
            /\ (two => verdict.nf \notin {"2NF", "3NF", "BCNF"})

\* a relation with a partial and a transitive dependency at once, classified
\* 1NF with the partial dependency as its violation
C4_Witness ==
    /\ pc = "nf_done"
    /\ verdict.nf = "1NF"
    /\ Len(verdict.violations) >= 1
    /\ \E i, j \in Considered(relation_attrs, fds) :
           /\ PartOfAKey(fds[i][1], candidate_keys)
           /\ HasNonPrime(fds[i][1], fds[i][2], candidate_keys)
           /\ ~PartOfAKey(fds[j][1], candidate_keys)
           /\ HasNonPrime(fds[j][1], fds[j][2], candidate_keys)

----------------------------------------------------------------------------
(* decompose_to_bcnf *)

IterationCap == 50

\* A schema is [name, attrs]; its name is the sequence of the suffixes 1 and 2
\* added to relation_name, <<>> for the input relation itself.

\* a test that takes every determining FD for a violation, superkey or not
ViolatesWithoutSuperkeyTest(attrs, F, i) ==
    /\ F[i][1] \subseteq attrs
    /\ (attribute_closure(F[i][1], F) \cap attrs) \ F[i][1] # {}

\* the conditions under which the for loop stops at F[i] with a violation
Violates(attrs, F, i) ==
    LET lhs == F[i][1]
        full_closure == attribute_closure(lhs, F)
        local_closure == full_closure \cap attrs
        determined_in_relation == local_closure \ lhs
    IN  /\ lhs \subseteq attrs
        /\ determined_in_relation # {}
        /\ ~(attrs \subseteq local_closure)

\* a scan that stops at the first FD whose determinant is outside the schema
RECURSIVE StopsAtInapplicable(_, _, _)
StopsAtInapplicable(attrs, F, i) ==
    IF i > Len(F) THEN 0
    ELSE IF ~(F[i][1] \subseteq attrs) THEN 0
    ELSE IF Violates(attrs, F, i) THEN i
    ELSE StopsAtInapplicable(attrs, F, i + 1)

\* the for loop over F[i..]: the index of the first violating FD, 0 for None
RECURSIVE FirstViolation(_, _, _)
FirstViolation(attrs, F, i) ==
    IF i > Len(F) THEN 0
    ELSE IF Violates(attrs, F, i) THEN i
    ELSE FirstViolation(attrs, F, i + 1)

\* the violation (X, Y) of F[i] in attrs
ViolationOf(attrs, F, i) ==
    <<F[i][1], (attribute_closure(F[i][1], F) \cap attrs) \ F[i][1]>>

\* a split whose first child loses the determinant
SplitWithoutDeterminant(schema, X, Y) ==
    << [name |-> Append(schema.name, 1), attrs |-> Y],
       [name |-> Append(schema.name, 2), attrs |-> schema.attrs \ (Y \ X)] >>

\* a split whose second child keeps the determined attributes
SplitKeepingDetermined(schema, X, Y) ==
    << [name |-> Append(schema.name, 1), attrs |-> X \cup Y],
       [name |-> Append(schema.name, 2), attrs |-> schema.attrs] >>

\* a split whose second child repeats the attributes of the first
SplitRepeatingFirstChild(schema, X, Y) ==
    << [name |-> Append(schema.name, 1), attrs |-> X \cup Y],
       [name |-> Append(schema.name, 2), attrs |-> X \cup Y] >>

\* schema1 and schema2 of a split of schema on the violation (X, Y)
SplitSchemas(schema, X, Y) ==
    << [name |-> Append(schema.name, 1), attrs |-> X \cup Y],
       [name |-> Append(schema.name, 2), attrs |-> schema.attrs \ (Y \ X)] >>

----------------------------------------------------------------------------
(* A run of decompose_to_bcnf, one action per loop iteration *)

ChainLen == 27

\* a chain 1 -> 2 -> ... -> ChainLen, which needs more than IterationCap pops
ChainAttrs == 1..ChainLen

ChainFds == [i \in 1..(ChainLen - 1) |-> <<{i}, {i + 1}>>]

InitDecompose ==
    /\ pc = "loop"
    /\ \/ RelationInput
       \/ relation_attrs = ChainAttrs /\ fds = ChainFds
    /\ attributes = {}
    /\ closure = {}
    /\ candidate_keys = <<>>
    /\ verdict = [nf |-> "none", violations |-> <<>>]
    /\ queue = << [name |-> <<>>, attrs |-> relation_attrs] >>
    /\ steps = <<>>
    /\ final_schemas = <<>>
    /\ iterations = 0
    /\ ret = [kind |-> "none"]
    /\ input_str = <<>>
    /\ parsed = [kind |-> "none"]

LoopRuns == pc = "loop" /\ queue # <<>> /\ iterations < IterationCap

\* an iteration that finds a violation in the popped schema and splits it
DecomposeSplit ==
    /\ LoopRuns
    /\ LET schema == Head(queue)
           i == FirstViolation(schema.attrs, fds, 1)
       IN  /\ i # 0
           /\ LET violation == ViolationOf(schema.attrs, fds, i)
                  new_relations == SplitSchemas(schema, violation[1], violation[2])
              IN  /\ steps' = Append(steps, [current_relation |-> schema,
                                             violating_fd |-> violation,
                                             new_relations |-> new_relations])
                  /\ queue' = Tail(queue) \o new_relations
    /\ iterations' = iterations + 1
    /\ UNCHANGED <<pc, relation_attrs, fds, attributes, closure, candidate_keys,
                   verdict, final_schemas, ret, input_str, parsed>>

\* an iteration that finds no violation and finalizes the popped schema
DecomposeFinalize ==
    /\ LoopRuns
    /\ FirstViolation(Head(queue).attrs, fds, 1) = 0
    /\ final_schemas' = Append(final_schemas, Head(queue))
    /\ queue' = Tail(queue)
    /\ iterations' = iterations + 1
    /\ UNCHANGED <<pc, relation_attrs, fds, attributes, closure, candidate_keys,
                   verdict, steps, ret, input_str, parsed>>

\* the loop condition fails: return (steps, final_schemas)
DecomposeReturn ==
    /\ pc = "loop"
    /\ ~(queue # <<>> /\ iterations < IterationCap)
    /\ ret' = [kind |-> "returned", steps |-> steps, final_schemas |-> final_schemas]
    /\ pc' = "returned"
    /\ UNCHANGED <<relation_attrs, fds, attributes, closure, candidate_keys, verdict,
                   queue, steps, final_schemas, iterations, input_str, parsed>>

NextDecompose == DecomposeSplit \/ DecomposeFinalize \/ DecomposeReturn

SpecDecompose == InitDecompose /\ [][NextDecompose]_vars

\* C5: in every recorded step the children share exactly the violating
\* determinant and together hold exactly the attributes of the source.
C5_SplitKeepsAttributes ==
    \A k \in 1..Len(steps) :
        LET S == steps[k].current_relation.attrs
            L == steps[k].violating_fd[1]
            schema1 == steps[k].new_relations[1]
            schema2 == steps[k].new_relations[2]
        IN  /\ schema1.attrs \cap schema2.attrs = L
            /\ schema1.attrs \cup schema2.attrs = S

\* a child of a split has been split again
C5_Witness ==
    \E k \in 1..Len(steps) : Len(steps[k].current_relation.name) >= 1

\* C6: a run that stops at the iteration cap with schemas still queued tells
\* its caller that it did not converge.
C6_CapIsReported ==
    (pc = "returned" /\ iterations >= IterationCap /\ queue # <<>>)
        => ret.kind = "did_not_converge"

\* the run on the Marketplace relation has returned
MarketplaceDone ==
    pc = "returned" /\ relation_attrs = MarketplaceAttrs /\ fds = MarketplaceFds

MarketplaceDeterminants == {Attr("GigID"), Attr("ClientID"), Attr("FreelancerID")}

\* the final schemas that hold attribute d
SchemasWith(d) == {i \in 1..Len(final_schemas) : d \in final_schemas[i].attrs}

\* the final schemas that hold attribute d and are determined by it
SchemasKeyedBy(d) ==
    {i \in SchemasWith(d) : final_schemas[i].attrs \subseteq attribute_closure({d}, fds)}

FinalCover == UNION {final_schemas[i].attrs : i \in 1..Len(final_schemas)}

\* C7 as stated: Marketplace ends in exactly 3 final schemas that cover the 9
\* attributes, and GigID, ClientID and FreelancerID each appear in exactly one
\* final schema, as its key.
C7_ThreeFinalSchemas ==
    MarketplaceDone =>
        /\ Len(final_schemas) = 3
        /\ FinalCover = MarketplaceAttrs
        /\ \A d \in MarketplaceDeterminants :
              Cardinality(SchemasWith(d)) = 1 /\ SchemasKeyedBy(d) = SchemasWith(d)

\* C7 amended: Marketplace ends in exactly 4 final schemas (Milestone, Client,
\* Freelancer and Gig tables) that cover the 9 attributes, and GigID, ClientID
\* and FreelancerID are each the key of exactly one final schema.
C7_FourFinalSchemas ==
    MarketplaceDone =>
        /\ Len(final_schemas) = 4
        /\ {final_schemas[i].attrs : i \in 1..Len(final_schemas)} =
              { {Attr("MilestoneID"), Attr("GigID"), Attr("Amount")},
                {Attr("ClientID"), Attr("CompanyName")},
                {Attr("FreelancerID"), Attr("FreelancerName")},
                {Attr("GigID"), Attr("ClientID"), Attr("FreelancerID"),
                 Attr("Title"), Attr("GigBudget")} }
        /\ FinalCover = MarketplaceAttrs
        /\ \A d \in MarketplaceDeterminants : Cardinality(SchemasKeyedBy(d)) = 1

\* the Marketplace run has returned after its three splits
C7_Witness == MarketplaceDone /\ Len(steps) = 3 /\ queue = <<>>

\* an FD of F whose determinant determines something inside attrs without
\* determining all of attrs
OffendingFds(attrs, F) ==
    {i \in 1..Len(F) :
        /\ F[i][1] \subseteq attrs
        /\ (attribute_closure(F[i][1], F) \cap attrs) \ F[i][1] # {}
        /\ ~(attrs \subseteq attribute_closure(F[i][1], F))}

\* C8: no schema in final_schemas has an offending FD, at any point of any
\* run, capped or not.
C8_FinalSchemasAreBCNF ==
    \A k \in 1..Len(final_schemas) : OffendingFds(final_schemas[k].attrs, fds) = {}

\* a child of a split was finalized although an FD applies inside it
C8_Witness ==
    \E k \in 1..Len(final_schemas) :
        /\ final_schemas[k].name # <<>>
        /\ \E i \in 1..Len(fds) :
              /\ fds[i][1] \subseteq final_schemas[k].attrs
              /\ fds[i][2] \ fds[i][1] # {}
              /\ fds[i][2] \subseteq final_schemas[k].attrs

RECURSIVE Pow2(_)
Pow2(n) == IF n = 0 THEN 1 ELSE 2 * Pow2(n - 1)

\* a measure of the pending work: 2^(|attrs|+1) - 1 for every queued schema
RECURSIVE Pending(_)
Pending(q) ==
    IF q = <<>> THEN 0
    ELSE (Pow2(Cardinality(Head(q).attrs) + 1) - 1) + Pending(Tail(q))

\* the children recorded by the last step are proper subsets of its source
LastSplitShrinks ==
    LET step == steps'[Len(steps')]
        S == step.current_relation.attrs
    IN  \A j \in 1..2 :
            /\ step.new_relations[j].attrs \subseteq S
            /\ Cardinality(step.new_relations[j].attrs) < Cardinality(S)

\* C10: both children of every split have strictly fewer attributes than the
\* source; hence every iteration, which always has a next step to take,
\* strictly lowers the natural number Pending(queue), cap or no cap, and a
\* run the cap did not stop returns with an empty queue.
C10_SplitsShrinkAndQueueEmpties ==
    /\ [][(steps' # steps) => LastSplitShrinks]_vars
    /\ [][(iterations' # iterations) => Pending(queue') < Pending(queue)]_vars
    /\ [](LoopRuns => FirstViolation(Head(queue).attrs, fds, 1) \in 0..Len(fds))
    /\ [](pc = "returned" /\ iterations < IterationCap => queue = <<>>)

\* a run with nested splits has returned with an empty queue
C10_Witness ==
    /\ pc = "returned"
    /\ queue = <<>>
    /\ iterations < IterationCap
    /\ \E k \in 1..Len(steps) : Len(steps[k].current_relation.name) >= 1

----------------------------------------------------------------------------
(* parse_relation: a text is a sequence of characters *)

MaxLen == 5

\* the characters \w matches among those of the inputs
WordChars == {"N", "A", "B"}

Alphabet == WordChars \cup {"(", ")", ",", ":", " "}

Texts == UNION {[1..n -> Alphabet] : n \in 0..MaxLen}

Contains(s, c) == \E i \in 1..Len(s) : s[i] = c

SetMin(S) == CHOOSE x \in S : \A y \in S : x <= y

SetMax(S) == CHOOSE x \in S : \A y \in S : y <= x

\* str.strip()
Strip(s) ==
    LET solid == {i \in 1..Len(s) : s[i] # " "}
    IN  IF solid = {} THEN <<>> ELSE SubSeq(s, SetMin(solid), SetMax(solid))

\* str.split(sep)
RECURSIVE Split(_, _)
Split(s, sep) ==
    LET at == {i \in 1..Len(s) : s[i] = sep}
    IN  IF at = {} THEN <<s>>
        ELSE <<SubSeq(s, 1, SetMin(at) - 1)>>
             \o Split(SubSeq(s, SetMin(at) + 1, Len(s)), sep)

\* set(a.strip() for a in s.split(","))
StrippedParts(s) == LET parts == Split(s, ",") IN {Strip(parts[i]) : i \in 1..Len(parts)}

\* re.search(r"(\w+)\s*\((.+)\)", s) matching from position i: the word run
\* from i, blanks, an opening parenthesis at Open, then at least one character
\* up to the last closing parenthesis of s
RunEnd(s, i) == SetMax({j \in i..Len(s) : \A m \in i..j : s[m] \in WordChars})

Open(s, i) == SetMin({k \in (RunEnd(s, i) + 1)..(Len(s) + 1) : k > Len(s) \/ s[k] # " "})

LastClose(s) == SetMax({0} \cup {c \in 1..Len(s) : s[c] = ")"})

MatchesAt(s, i) ==
    /\ s[i] \in WordChars
    /\ Open(s, i) <= Len(s)
    /\ s[Open(s, i)] = "("
    /\ LastClose(s) >= Open(s, i) + 2

MatchStarts(s) == {i \in 1..Len(s) : MatchesAt(s, i)}

\* the fallback for a bare list that tests for ':' before it splits on commas
ColonBeforeBareList(text) ==
    LET s == Strip(text)
        starts == MatchStarts(s)
        parts == {q \in StrippedParts(s) : q # <<>>}
        colon == SetMin({i \in 1..Len(s) : s[i] = ":"})
    IN  IF starts = {}
        THEN IF Contains(s, ":")
             THEN [kind |-> "ok", name |-> Strip(SubSeq(s, 1, colon - 1)),
                   attrs |-> StrippedParts(SubSeq(s, colon + 1, Len(s)))]
             ELSE IF ~Contains(s, "(") /\ ~Contains(s, ")") /\ parts # {}
             THEN [kind |-> "ok", name |-> <<"R">>, attrs |-> parts]
             ELSE [kind |-> "error"]
        ELSE LET i == SetMin(starts)
             IN  [kind |-> "ok", name |-> SubSeq(s, i, RunEnd(s, i)),
                  attrs |-> StrippedParts(SubSeq(s, Open(s, i) + 1, LastClose(s) - 1))]

parse_relation(text) ==
    LET s == Strip(text)
        starts == MatchStarts(s)
        parts == {q \in StrippedParts(s) : q # <<>>}
        colon == SetMin({i \in 1..Len(s) : s[i] = ":"})
    IN  IF starts = {}
        THEN IF ~Contains(s, "(") /\ ~Contains(s, ")") /\ parts # {}
             THEN [kind |-> "ok", name |-> <<"R">>, attrs |-> parts]
             ELSE IF Contains(s, ":")
             THEN [kind |-> "ok", name |-> Strip(SubSeq(s, 1, colon - 1)),
                   attrs |-> StrippedParts(SubSeq(s, colon + 1, Len(s)))]
             ELSE [kind |-> "error"]
        ELSE LET i == SetMin(starts)
             IN  [kind |-> "ok", name |-> SubSeq(s, i, RunEnd(s, i)),
                  attrs |-> StrippedParts(SubSeq(s, Open(s, i) + 1, LastClose(s) - 1))]

----------------------------------------------------------------------------
(* Parsing a relation text *)

InitParse ==
    /\ pc = "parse_call"
    /\ input_str \in Texts
    /\ relation_attrs = {}
    /\ fds = <<>>
    /\ attributes = {}
    /\ closure = {}
    /\ candidate_keys = <<>>
    /\ verdict = [nf |-> "none", violations |-> <<>>]
    /\ queue = <<>>
    /\ steps = <<>>
    /\ final_schemas = <<>>
    /\ iterations = 0
    /\ ret = [kind |-> "none"]
    /\ parsed = [kind |-> "none"]

CallParseRelation ==
    /\ pc = "parse_call"
    /\ parsed' = parse_relation(input_str)
    /\ pc' = "parse_done"
    /\ UNCHANGED <<relation_attrs, fds, attributes, closure, candidate_keys, verdict,
                   queue, steps, final_schemas, iterations, ret, input_str>>

NextParse == CallParseRelation

SpecParse == InitParse /\ [][NextParse]_vars

NoParens(s) == ~Contains(s, "(") /\ ~Contains(s, ")")

IsWord(s) == s # <<>> /\ \A i \in 1..Len(s) : s[i] \in WordChars

\* 'Name: A, B, C' without parentheses: a name, a colon, a list of attributes
ColonFormat(s) ==
    /\ NoParens(s)
    /\ Contains(s, ":")
    /\ LET colon == SetMin({i \in 1..Len(s) : s[i] = ":"})
       IN  /\ IsWord(Strip(SubSeq(s, 1, colon - 1)))
           /\ \A a \in StrippedParts(SubSeq(s, colon + 1, Len(s))) : IsWord(a)

\* 'A, B, C': no parentheses, no colon, at least one attribute
BareList(s) == NoParens(s) /\ ~Contains(s, ":") /\ StrippedParts(s) # {<<>>}

\* 'Name(A, B, C)'
ParenFormat(s) == MatchStarts(s) # {}

\* C9: a text 'Name: A, B, C' without parentheses parses to the name before
\* the colon and the attributes after it; a bare list 'A, B, C' parses to the
\* name R and its attributes; a text in none of the three formats (and without
\* a colon) is a parse error.
C9_ColonFormatAccepted ==
    pc = "parse_done" =>
        LET s == Strip(input_str)
            colon == SetMin({i \in 1..Len(s) : s[i] = ":"})
        IN  /\ ColonFormat(s) =>
                  parsed = [kind |-> "ok", name |-> Strip(SubSeq(s, 1, colon - 1)),
                            attrs |-> StrippedParts(SubSeq(s, colon + 1, Len(s)))]
            /\ BareList(s) =>
                  parsed = [kind |-> "ok", name |-> <<"R">>,
                            attrs |-> StrippedParts(s) \ {<<>>}]
            /\ (~ParenFormat(s) /\ ~BareList(s) /\ ~Contains(s, ":")) =>
                  parsed = [kind |-> "error"]

----------------------------------------------------------------------------
(* The classifier and the decomposer on the same relation: the normal form *)
(* is analysed, then the decomposition is run, on a relation whose FDs     *)
(* mention only its own attributes                                         *)

InitAgree ==
    /\ pc = "nf_call"
    /\ AnalysedInput
    /\ Mentioned(fds) \subseteq relation_attrs
    /\ IdleRest

\* the call of decompose_to_bcnf, up to its while loop
CallDecompose ==
    /\ pc = "nf_done"
    /\ queue' = << [name |-> <<>>, attrs |-> relation_attrs] >>
    /\ steps' = <<>>
    /\ final_schemas' = <<>>
    /\ iterations' = 0
    /\ pc' = "loop"
    /\ UNCHANGED <<relation_attrs, fds, attributes, closure, candidate_keys, verdict,
                   ret, input_str, parsed>>

NextAgree ==
    \/ AnalyzeNormalForm
    \/ CallDecompose
    \/ DecomposeSplit
    \/ DecomposeFinalize
    \/ DecomposeReturn

SpecAgree == InitAgree /\ [][NextAgree]_vars

\* C11: for FDs that mention only attributes of U, the verdict on U with its
\* candidate keys is BCNF exactly when the decomposition of U records no
\* step, and then final_schemas is the input schema alone.
C11_ClassifierAgreesWithDecomposer ==
    (pc = "returned" /\ Mentioned(fds) \subseteq relation_attrs) =>
        /\ (verdict.nf = "BCNF") <=> (ret.steps = <<>>)
        /\ (ret.steps = <<>> =>
               ret.final_schemas = << [name |-> <<>>, attrs |-> relation_attrs] >>)

\* a relation with a non-trivial FD on a superkey: BCNF and not decomposed
C11_Witness ==
    /\ pc = "returned"
    /\ verdict.nf = "BCNF"
    /\ ret.steps = <<>>
    /\ \E i \in 1..Len(fds) : fds[i][2] \ fds[i][1] # {}

----------------------------------------------------------------------------
(* Attribute coverage during a run of decompose_to_bcnf *)

QueueCover == UNION {queue[i].attrs : i \in 1..Len(queue)}

\* C12: at every point of a run the attribute sets of the queued and the
\* finalized schemas together are exactly the original attribute set; with
\* the queue empty the final schemas alone cover exactly the original set.
C12_QueueAndFinalsCoverOriginal ==
    /\ QueueCover \cup FinalCover = relation_attrs
    /\ (queue = <<>> => FinalCover = relation_attrs)

\* a run with nested splits has emptied its queue into several final schemas
C12_Witness ==
    /\ pc = "returned"
    /\ queue = <<>>
    /\ Len(final_schemas) >= 3
    /\ \E k \in 1..Len(steps) : Len(steps[k].current_relation.name) >= 1

====
